---- MODULE Spec2Model ----
(***************************************************************************)
(* Model of server/youtube_downloader.py: the command-line dispatcher, the *)
(* two library wrappers get_video_info and download_video, and the pure    *)
(* helpers parse_quality_height and build_format_selector.                 *)
(*                                                                         *)
(* Strings the program only compares are TLA+ strings.  Strings the        *)
(* program builds or takes apart (titles, file names, the '<h>p' quality   *)
(* labels, the numbers inside a format selector) are sequences of          *)
(* one-character strings, so that formatting, parsing, replacing and       *)
(* substring search are computed and not assumed.                          *)
(***************************************************************************)
EXTENDS Integers, Sequences, FiniteSets, TLC

VARIABLES
    argv,             \* sys.argv, argv[1] is the program name
    pc,               \* position of the single thread of control
    url,              \* local: url
    quality,          \* local: quality
    format_type,      \* local: format_type
    format_selector,  \* download_video local: format_selector (line 52)
    ydl_opts,         \* the configuration handed to yt_dlp.YoutubeDL
    calls,            \* the library calls made so far, in order
    info,             \* the record returned by the probe
    output_dir,       \* the entries of /tmp/downloads
    result,           \* the dict returned by get_video_info / download_video
    stdout,           \* the objects printed with print(json.dumps(...))
    exitCode,         \* process exit status, Running while it runs
    traceback,        \* TRUE when an exception escaped to the interpreter
    raised            \* where an exception was raised inside a try block

vars == <<argv, pc, url, quality, format_type, format_selector, ydl_opts,
          calls, info, output_dir, result, stdout, exitCode, traceback, raised>>

-----------------------------------------------------------------------------
(* Bounds of the model *)

\* the longest 'formats' list the probe returns
MaxFormats == 3

-----------------------------------------------------------------------------
(* Character-level string helpers *)

DigitChar == <<"0", "1", "2", "3", "4", "5", "6", "7", "8", "9">>

IsDigit(c) == \E i \in 1..10 : DigitChar[i] = c

DigitVal(c) == (CHOOSE i \in 1..10 : DigitChar[i] = c) - 1

\* str(n) for n >= 0, as f"{n}" formats it
RECURSIVE IntToStr(_)
IntToStr(n) ==
    IF n < 10 THEN <<DigitChar[n + 1]>>
    ELSE IntToStr(n \div 10) \o <<DigitChar[(n % 10) + 1]>>

\* int(s) succeeds on a non-empty string of decimal digits
IsIntLiteral(s) == Len(s) > 0 /\ \A i \in 1..Len(s) : IsDigit(s[i])

RECURSIVE StrToInt(_)
StrToInt(s) ==
    IF Len(s) = 0 THEN 0
    ELSE 10 * StrToInt(SubSeq(s, 1, Len(s) - 1)) + DigitVal(s[Len(s)])

\* s.replace(old, new) for single characters
StrReplace(s, old, new) == [i \in 1..Len(s) |-> IF s[i] = old THEN new ELSE s[i]]

\* needle in hay
StrContains(hay, needle) ==
    \E i \in 0..(Len(hay) - Len(needle)) :
        SubSeq(hay, i + 1, i + Len(needle)) = needle

-----------------------------------------------------------------------------
(* Quality table and format selector : lines 10-41 *)

QUALITY_MAP ==
    ("2160p" :> 2160) @@ ("1440p" :> 1440) @@ ("1080p" :> 1080) @@
    ("720p" :> 720) @@ ("480p" :> 480) @@ ("360p" :> 360)

\* the same lookup with the default of 'best' for an unknown string
parse_quality_height_strict(q) ==
    IF q = "best" THEN 9999
    ELSE IF q \in DOMAIN QUALITY_MAP THEN QUALITY_MAP[q] ELSE 9999

parse_quality_height(q) ==
    IF q = "best" THEN 9999
    ELSE IF q \in DOMAIN QUALITY_MAP THEN QUALITY_MAP[q] ELSE 720

\* one bracketed filter of a selector, e.g. [height<=720] or [ext=mp4]
Filter(key, op, val) == [key |-> key, op |-> op, val |-> val]

HeightLE(height) == Filter("height", "<=", IntToStr(height))

\* one stream term, e.g. bestvideo[height<=720][ext=mp4]
Term(sel, filters) == [sel |-> sel, filters |-> filters]

\* the same test with > in place of >=
UseMergeFirst_gt(height) == height > 1080

\* line 30: the test that picks the merge-first mp4 selector
UseMergeFirst(height) == height >= 1080

\* A selector is a sequence of '/'-separated alternatives, each a sequence
\* of '+'-joined stream terms.
build_format_selector(q, f) ==
    LET height == parse_quality_height(q)
        H == HeightLE(height)
    IN  IF f = "mp4" THEN
            IF UseMergeFirst(height) THEN
                << << Term("bestvideo", <<H, Filter("vcodec", "^=", <<"avc1">>), Filter("ext", "=", <<"mp4">>)>>),
                      Term("bestaudio", <<Filter("acodec", "^=", <<"mp4a">>), Filter("ext", "=", <<"m4a">>)>>) >>,
                   << Term("bestvideo", <<H, Filter("ext", "=", <<"mp4">>)>>),
                      Term("bestaudio", <<Filter("ext", "=", <<"m4a">>)>>) >>,
                   << Term("bestvideo", <<H>>), Term("bestaudio", <<>>) >>,
                   << Term("best", <<H>>) >> >>
            ELSE
                << << Term("best", <<H, Filter("ext", "=", <<"mp4">>)>>) >>,
                   << Term("bestvideo", <<H, Filter("vcodec", "^=", <<"avc1">>), Filter("ext", "=", <<"mp4">>)>>),
                      Term("bestaudio", <<Filter("acodec", "^=", <<"mp4a">>)>>) >>,
                   << Term("best", <<H>>) >> >>
        ELSE IF f = "webm" THEN
            << << Term("bestvideo", <<H, Filter("ext", "=", <<"webm">>)>>),
                  Term("bestaudio", <<Filter("ext", "=", <<"webm">>)>>) >>,
               << Term("bestvideo", <<H>>), Term("bestaudio", <<>>) >>,
               << Term("best", <<H>>) >> >>
        ELSE
            << << Term("bestvideo", <<H>>), Term("bestaudio", <<>>) >>,
               << Term("best", <<H>>) >> >>

\* the literal 'bestaudio/best' of line 93
AudioSelector == << << Term("bestaudio", <<>>) >>, << Term("best", <<>>) >> >>

-----------------------------------------------------------------------------
(* Python values: a dict lookup yields a missing key, None, or a value *)

Missing == [tag |-> "missing"]

None == [tag |-> "none"]

Val(v) == [tag |-> "val", v |-> v]

\* d.get(key, default), given the looked-up slot
DictGet(slot, default) == IF slot.tag = "missing" THEN default ELSE slot

\* truth value of d.get(key) for an integer slot
TruthyInt(slot) == slot.tag = "val" /\ slot.v # 0

\* truth value of d.get(key) for a string slot
TruthyStr(slot) == slot.tag = "val" /\ slot.v # ""

-----------------------------------------------------------------------------
(* Exceptions *)

\* classes derived from Exception that can be raised inside the try blocks
ExceptionClasses ==
    {"Exception", "DownloadError", "ExtractorError", "OSError", "AttributeError"}

\* what the library raises from its constructor, extract_info and download
LibraryErrors ==
    { [type |-> "DownloadError", msg |-> "ERROR: Sign in to confirm you are not a bot"],
      [type |-> "ExtractorError", msg |-> "ERROR: Unsupported URL"] }

Exc(type, msg) == [type |-> type, msg |-> msg]

\* a handler that names the library's DownloadError only
ExceptCatches_narrow(type) == type = "DownloadError"

\* 'except Exception as e' (lines 148, 197)
ExceptCatches(type) == type \in ExceptionClasses

\* lines 149-153
DownloadFailed(e) ==
    [success |-> FALSE, error |-> e.msg, message |-> <<"Download failed: ", e.msg>>]

\* lines 198-202
InfoFailed(e) ==
    [success |-> FALSE, error |-> e.msg, message |-> <<"Failed to get video info: ", e.msg>>]

\* line 206
MissingArguments == [success |-> FALSE, error |-> "Missing arguments"]

\* line 224
InvalidAction == [success |-> FALSE, error |-> "Invalid action"]

-----------------------------------------------------------------------------
(* The configuration records : lines 55-104 and 160-167 *)

UserAgent ==
    "Mozilla/5.0 (Windows NT 10.0; Win64; x64) AppleWebKit/537.36 (KHTML, like Gecko) Chrome/120.0.0.0 Safari/537.36"

\* the same test without 'm4a'
IsAudioFormat_mp3(f) == f = "mp3"

\* line 91: format_type in ['mp3', 'm4a']
IsAudioFormat(f) == f \in {"mp3", "m4a"}

\* lines 55-88
BaseDownloadOpts(selector) ==
    [ format |-> selector,
      outtmpl |-> "/tmp/downloads/%(title)s.%(ext)s",
      use_po_token |-> TRUE,
      http_headers |->
          ("User-Agent" :> UserAgent)
          @@ ("Accept" :> "text/html,application/xhtml+xml,application/xml;q=0.9,image/webp,*/*;q=0.8")
          @@ ("Accept-Language" :> "en-US,en;q=0.9")
          @@ ("Accept-Encoding" :> "gzip, deflate")
          @@ ("DNT" :> "1")
          @@ ("Connection" :> "keep-alive")
          @@ ("Upgrade-Insecure-Requests" :> "1"),
      retries |-> 3,
      socket_timeout |-> 30,
      sleep_interval |-> 2,
      max_sleep_interval |-> 5,
      quiet |-> TRUE,
      no_warnings |-> TRUE,
      logger |-> None,
      extractor_args |-> [youtube |-> [player_client |-> <<"android", "web">>]] ]

\* lines 55-104: the dict download_video passes to yt_dlp.YoutubeDL
DownloadOpts(selector, f) ==
    IF IsAudioFormat(f) THEN
        ("postprocessors" :>
            << [key |-> "FFmpegExtractAudio", preferredcodec |-> f, preferredquality |-> "192"] >>)
        @@ [BaseDownloadOpts(selector) EXCEPT !.format = AudioSelector]
    ELSE IF f = "mp4" THEN
        ("merge_output_format" :> "mp4")
        @@ ("postprocessor_args" :> <<"-movflags", "+faststart">>)
        @@ BaseDownloadOpts(selector)
    ELSE BaseDownloadOpts(selector)

\* lines 160-167
InfoOpts ==
    [ quiet |-> TRUE,
      use_po_token |-> TRUE,
      http_headers |-> ("User-Agent" :> UserAgent),
      socket_timeout |-> 15 ]

\* no configuration built yet
NoOpts == [unset |-> TRUE]

-----------------------------------------------------------------------------
(* Inputs *)

Prog == "youtube_downloader.py"

Urls == {"https://youtu.be/v"}

Actions == {"info", "download", "delete"}

Qualities ==
    {"best", "2160p", "1440p", "1080p", "720p", "480p", "360p",
     "", "720", "1081p", "4k"}

Formats == {"mp4", "webm", "mp3", "m4a", "mkv"}

Argvs ==
    {<<Prog>>}
    \cup {<<Prog, a>> : a \in Actions}
    \cup {<<Prog, a, u>> : a \in Actions, u \in Urls}
    \cup {<<Prog, "download", u, q>> : u \in Urls, q \in Qualities}
    \cup {<<Prog, "download", u, q, f>> : u \in Urls, q \in Qualities, f \in Formats}

\* a directory entry; fresh marks what this invocation's download wrote
Entry(name, is_file, ctime, fresh) ==
    [name |-> name, is_file |-> is_file, ctime |-> ctime, fresh |-> fresh]

\* U+29F8, the character newer library versions put in place of '/'
BigSolidus == "|"

\* what /tmp/downloads may hold when download_video reaches it
Dirs ==
    { {},
      {Entry(<<"a", ".", "webm">>, TRUE, 1, FALSE)},
      {Entry(<<"a">>, FALSE, 1, FALSE)},
      {Entry(<<"a", BigSolidus, "b", ".", "mp4">>, TRUE, 1, FALSE),
       Entry(<<"s", "u", "b">>, FALSE, 2, FALSE)} }

\* titles the probe may report
Titles == {Missing, None, Val(<<"a">>), Val(<<"a", "/", "b">>)}

Durations == {Missing, Val(212)}

Unknown == <<"U", "n", "k", "n", "o", "w", "n">>

HeightSlots == {None, Val(0), Val(360), Val(720), Val(1080)}

ExtSlots == {Missing, Val("mp4"), Val("webm")}

\* the entries of info['formats']
FormatEntries == [height : HeightSlots, ext : ExtSlots]

FormatLists == UNION {[1..n -> FormatEntries] : n \in 0..MaxFormats}

-----------------------------------------------------------------------------
(* State *)

Init ==
    /\ argv \in Argvs
    /\ pc = "start"
    /\ url = ""
    /\ quality = ""
    /\ format_type = ""
    /\ format_selector = <<>>
    /\ ydl_opts = NoOpts
    /\ calls = <<>>
    /\ info = None
    /\ output_dir = {}
    /\ result = None
    /\ stdout = <<>>
    /\ exitCode = -1
    /\ traceback = FALSE
    /\ raised = "none"

Call(fn, ret) == [fn |-> fn, ret |-> ret]

\* the function returns r; __main__ prints it and the process ends normally
Return(r) ==
    /\ result' = r
    /\ stdout' = Append(stdout, r)
    /\ exitCode' = 0
    /\ pc' = "done"
    /\ UNCHANGED traceback

\* an exception reaches the interpreter: traceback on stderr, status 1
Escape ==
    /\ traceback' = TRUE
    /\ exitCode' = 1
    /\ pc' = "done"
    /\ UNCHANGED <<result, stdout>>

\* an exception e raised inside download_video's try block (lines 47-153)
DlRaise(where, e) ==
    /\ raised' = where
    /\ IF ExceptCatches(e.type) THEN Return(DownloadFailed(e)) ELSE Escape

\* an exception e raised inside get_video_info's try block (lines 159-202)
InfoRaise(where, e) ==
    /\ raised' = where
    /\ IF ExceptCatches(e.type) THEN Return(InfoFailed(e)) ELSE Escape

-----------------------------------------------------------------------------
(* __main__ : lines 204-225 *)

\* lines 205-207
MainMissing ==
    /\ pc = "start"
    /\ Len(argv) < 2
    /\ stdout' = Append(stdout, MissingArguments)
    /\ exitCode' = 1
    /\ pc' = "done"
    /\ UNCHANGED <<argv, url, quality, format_type, format_selector, ydl_opts,
                   calls, info, output_dir, result, traceback, raised>>

\* lines 211-213: sys.argv[2] raises IndexError outside any try block
MainInfo ==
    /\ pc = "start"
    /\ Len(argv) >= 2
    /\ argv[2] = "info"
    /\ IF Len(argv) < 3
       THEN Escape /\ UNCHANGED url
       ELSE /\ url' = argv[3]
            /\ pc' = "info_setup"
            /\ UNCHANGED <<result, stdout, exitCode, traceback>>
    /\ UNCHANGED <<argv, quality, format_type, format_selector, ydl_opts,
                   calls, info, output_dir, raised>>

\* lines 216-220
MainDownload ==
    /\ pc = "start"
    /\ Len(argv) >= 2
    /\ argv[2] = "download"
    /\ IF Len(argv) < 3
       THEN Escape /\ UNCHANGED <<url, quality, format_type>>
       ELSE /\ url' = argv[3]
            /\ quality' = IF Len(argv) > 3 THEN argv[4] ELSE "best"
            /\ format_type' = IF Len(argv) > 4 THEN argv[5] ELSE "mp4"
            /\ pc' = "dl_setup"
            /\ UNCHANGED <<result, stdout, exitCode, traceback>>
    /\ UNCHANGED <<argv, format_selector, ydl_opts, calls, info, output_dir, raised>>

\* the unknown-action branch without its sys.exit(1)
MainInvalid_noexit ==
    /\ pc = "start"
    /\ Len(argv) >= 2
    /\ argv[2] \notin {"info", "download"}
    /\ stdout' = Append(stdout, InvalidAction)
    /\ exitCode' = 0
    /\ pc' = "done"
    /\ UNCHANGED <<argv, url, quality, format_type, format_selector, ydl_opts,
                   calls, info, output_dir, result, traceback, raised>>

\* lines 223-225
MainInvalid ==
    /\ pc = "start"
    /\ Len(argv) >= 2
    /\ argv[2] \notin {"info", "download"}
    /\ stdout' = Append(stdout, InvalidAction)
    /\ exitCode' = 1
    /\ pc' = "done"
    /\ UNCHANGED <<argv, url, quality, format_type, format_selector, ydl_opts,
                   calls, info, output_dir, result, traceback, raised>>

-----------------------------------------------------------------------------
(* get_video_info : lines 155-202 *)

\* the metadata the probe may report beside 'formats'
Metadata ==
    { [title |-> Missing, thumbnail |-> Missing, duration |-> Missing,
       view_count |-> Missing, uploader |-> Missing, upload_date |-> Missing],
      [title |-> Val(<<"a">>), thumbnail |-> Val("https://i.ytimg.com/a.jpg"),
       duration |-> Val(212), view_count |-> Val(1000), uploader |-> Val("ch"),
       upload_date |-> Val("20250101")] }

FormatsSlots == {Missing} \cup {Val(l) : l \in FormatLists}

\* line 181: f"{fmt['height']}p"
QualityLabel(height) == IntToStr(height) \o <<"p">>

\* line 193: key=lambda x: int(x[:-1])
QualityKey(x) == StrToInt(SubSeq(x, 1, Len(x) - 1))

RECURSIVE SortAscending(_)
SortAscending(S) ==
    IF S = {} THEN <<>>
    ELSE LET m == CHOOSE x \in S : \A y \in S : QualityKey(x) <= QualityKey(y)
         IN  <<m>> \o SortAscending(S \ {m})

RECURSIVE SortDescending(_)
SortDescending(S) ==
    IF S = {} THEN <<>>
    ELSE LET m == CHOOSE x \in S : \A y \in S : QualityKey(x) >= QualityKey(y)
         IN  <<m>> \o SortDescending(S \ {m})

\* the same sort without reverse=True
SortQualities_noreverse(S) == SortAscending(S)

\* line 193: sorted(list(qualities), key=..., reverse=True)
SortQualities(S) == SortDescending(S)

\* line 194: list(format_types) lists a set in an order the program does not fix
ListOrders(S) ==
    {l \in [1..Cardinality(S) -> S] : \A i, j \in 1..Cardinality(S) : i # j => l[i] # l[j]}

\* lines 176-183
QualitiesOf(formats) ==
    {QualityLabel(formats[k].height.v) : k \in {j \in 1..Len(formats) : TruthyInt(formats[j].height)}}

FormatTypesOf(formats) ==
    {formats[k].ext.v : k \in {j \in 1..Len(formats) : TruthyStr(formats[j].ext)}}

\* lines 185-195, with format_list one listing of the set format_types
InfoResult(i, format_list) ==
    LET formats == DictGet(i.formats, Val(<<>>)).v
        sorted == SortQualities(QualitiesOf(formats))
    IN  [ success |-> TRUE,
          title |-> DictGet(i.title, Val(Unknown)),
          thumbnail |-> DictGet(i.thumbnail, Val("")),
          duration |-> DictGet(i.duration, Val(0)),
          views |-> DictGet(i.view_count, Val(0)),
          channel |-> DictGet(i.uploader, Val("Unknown")),
          uploadDate |-> DictGet(i.upload_date, Val("Unknown")),
          availableQualities |->
              IF sorted # <<>> THEN sorted
              ELSE << <<"7", "2", "0", "p">>, <<"4", "8", "0", "p">>, <<"3", "6", "0", "p">> >>,
          availableFormats |->
              IF format_list # <<>> THEN format_list
              ELSE <<"mp4", "webm", "mp3", "m4a">> ]

\* lines 160-169: build the options and construct yt_dlp.YoutubeDL
InfoSetup ==
    /\ pc = "info_setup"
    /\ ydl_opts' = InfoOpts
    /\ \/ \E e \in LibraryErrors :
            /\ calls' = Append(calls, Call("YoutubeDL", "raise"))
            /\ InfoRaise("setup", e)
       \/ /\ calls' = Append(calls, Call("YoutubeDL", "ok"))
          /\ pc' = "info_probe"
          /\ UNCHANGED <<result, stdout, exitCode, traceback, raised>>
    /\ UNCHANGED <<argv, url, quality, format_type, format_selector, info, output_dir>>

\* lines 170-195: probe, collect qualities and formats, return
InfoProbe ==
    /\ pc = "info_probe"
    /\ \/ \E e \in LibraryErrors :
            /\ calls' = Append(calls, Call("extract_info", "raise"))
            /\ InfoRaise("probe", e)
            /\ UNCHANGED info
       \/ /\ calls' = Append(calls, Call("extract_info", "None"))
          /\ InfoRaise("probe_none", Exc("Exception", "Failed to extract video information"))
          /\ UNCHANGED info
       \/ \E m \in Metadata, fs \in FormatsSlots :
            LET i == [title |-> m.title, thumbnail |-> m.thumbnail, duration |-> m.duration,
                      view_count |-> m.view_count, uploader |-> m.uploader,
                      upload_date |-> m.upload_date, formats |-> fs]
            IN  /\ calls' = Append(calls, Call("extract_info", "info"))
                /\ info' = i
                /\ \E l \in ListOrders(FormatTypesOf(DictGet(fs, Val(<<>>)).v)) :
                       Return(InfoResult(i, l))
                /\ UNCHANGED raised
    /\ UNCHANGED <<argv, url, quality, format_type, format_selector, ydl_opts, output_dir>>

-----------------------------------------------------------------------------
(* download_video : lines 43-153 *)

\* the file extension the library gives the download
LibExts(f) == IF f \in {"mp4", "webm", "mp3", "m4a"} THEN {f} ELSE {"mp4", "webm", "mkv"}

\* line 57, outtmpl '%(title)s.%(ext)s': the library fills in the title after
\* making it a legal file name, '/' becoming '_' or U+29F8 depending on its
\* version, and writes NA for a title it does not have
LibFileNames(titleSlot, f) ==
    LET bases == IF titleSlot.tag = "val"
                 THEN {StrReplace(titleSlot.v, "/", "_"), StrReplace(titleSlot.v, "/", BigSolidus)}
                 ELSE {<<"N", "A">>}
    IN  {b \o <<".", x>> : b \in bases, x \in LibExts(f)}

NewestCtime(dir) == IF dir = {} THEN 0 ELSE CHOOSE c \in {e.ctime : e \in dir} : \A e \in dir : e.ctime <= c

\* lines 122-130 and 136-144
DownloadSuccess(file, title, duration) ==
    [ success |-> TRUE,
      filename |-> file.name,
      filepath |-> <<"/tmp/downloads", "/">> \o file.name,
      title |-> title,
      duration |-> duration,
      format |-> format_type,
      quality |-> quality ]

\* line 121: file.is_file() and title.replace('/', '_') in file.name
TitleMatches(dir, title) ==
    {e \in dir : e.is_file /\ StrContains(e.name, StrReplace(title, "/", "_"))}

\* line 135: max(files, key=os.path.getctime)
LatestEntries(dir) == {e \in dir : \A o \in dir : o.ctime <= e.ctime}

\* lines 48-107: create the directory, build the options, construct YoutubeDL
DlSetup ==
    /\ pc = "dl_setup"
    /\ \/ /\ DlRaise("setup", Exc("OSError", "[Errno 13] Permission denied: '/tmp/downloads'"))
          /\ UNCHANGED <<format_selector, ydl_opts, calls, output_dir>>
       \/ \E d \in Dirs :
            /\ output_dir' = d
            /\ format_selector' = build_format_selector(quality, format_type)
            /\ ydl_opts' = DownloadOpts(build_format_selector(quality, format_type), format_type)
            /\ \/ \E e \in LibraryErrors :
                    /\ calls' = Append(calls, Call("YoutubeDL", "raise"))
                    /\ DlRaise("setup", e)
               \/ /\ calls' = Append(calls, Call("YoutubeDL", "ok"))
                  /\ pc' = "dl_probe"
                  /\ UNCHANGED <<result, stdout, exitCode, traceback, raised>>
    /\ UNCHANGED <<argv, url, quality, format_type, info>>

\* the probe without the 'info is None' test of line 110
DlProbe_nonecheck ==
    /\ pc = "dl_probe"
    /\ \/ \E e \in LibraryErrors :
            /\ calls' = Append(calls, Call("extract_info", "raise"))
            /\ DlRaise("probe", e)
            /\ UNCHANGED info
       \/ /\ calls' = Append(calls, Call("extract_info", "None"))
          /\ info' = [title |-> Missing, duration |-> Missing]
          /\ pc' = "dl_download"
          /\ UNCHANGED <<result, stdout, exitCode, traceback, raised>>
       \/ \E t \in Titles, d \in Durations :
            /\ calls' = Append(calls, Call("extract_info", "info"))
            /\ info' = [title |-> t, duration |-> d]
            /\ pc' = "dl_download"
            /\ UNCHANGED <<result, stdout, exitCode, traceback, raised>>
    /\ UNCHANGED <<argv, url, quality, format_type, format_selector, ydl_opts, output_dir>>

\* lines 108-114: the metadata probe
DlProbe ==
    /\ pc = "dl_probe"
    /\ \/ \E e \in LibraryErrors :
            /\ calls' = Append(calls, Call("extract_info", "raise"))
            /\ DlRaise("probe", e)
            /\ UNCHANGED info
       \/ /\ calls' = Append(calls, Call("extract_info", "None"))
          /\ DlRaise("probe_none", Exc("Exception", "Failed to extract video information"))
          /\ UNCHANGED info
       \/ \E t \in Titles, d \in Durations :
            /\ calls' = Append(calls, Call("extract_info", "info"))
            /\ info' = [title |-> t, duration |-> d]
            /\ pc' = "dl_download"
            /\ UNCHANGED <<result, stdout, exitCode, traceback, raised>>
    /\ UNCHANGED <<argv, url, quality, format_type, format_selector, ydl_opts, output_dir>>

\* lines 116-117: ydl.download([url]); a file already there is left as it is
DlDownload ==
    /\ pc = "dl_download"
    /\ \/ \E e \in LibraryErrors :
            /\ calls' = Append(calls, Call("download", "raise"))
            /\ DlRaise("download", e)
            /\ UNCHANGED output_dir
       \/ \E n \in LibFileNames(info.title, format_type) :
            /\ calls' = Append(calls, Call("download", "ok"))
            /\ output_dir' =
                  IF \E e \in output_dir : e.name = n THEN output_dir
                  ELSE output_dir \cup {Entry(n, TRUE, NewestCtime(output_dir) + 1, TRUE)}
            /\ pc' = "dl_find"
            /\ UNCHANGED <<result, stdout, exitCode, traceback, raised>>
    /\ UNCHANGED <<argv, url, quality, format_type, format_selector, ydl_opts, info>>

\* lines 119-146: look the downloaded file up in the directory
DlFind ==
    /\ pc = "dl_find"
    /\ LET title == DictGet(info.title, Val(Unknown))
           duration == DictGet(info.duration, Val(0))
       IN  IF title.tag = "none" /\ \E e \in output_dir : e.is_file
           THEN DlRaise("lookup", Exc("AttributeError", "'NoneType' object has no attribute 'replace'"))
           ELSE IF title.tag = "val" /\ TitleMatches(output_dir, title.v) # {}
           THEN /\ \E file \in TitleMatches(output_dir, title.v) :
                        Return(DownloadSuccess(file, title, duration))
                /\ UNCHANGED raised
           ELSE IF output_dir # {}
           THEN /\ \E latest_file \in LatestEntries(output_dir) :
                        Return(DownloadSuccess(latest_file, title, duration))
                /\ UNCHANGED raised
           ELSE DlRaise("lookup", Exc("Exception", "Downloaded file not found"))
    /\ UNCHANGED <<argv, url, quality, format_type, format_selector, ydl_opts,
                   calls, info, output_dir>>

-----------------------------------------------------------------------------

Next ==
    \/ MainMissing
    \/ MainInfo
    \/ MainDownload
    \/ MainInvalid
    \/ InfoSetup
    \/ InfoProbe
    \/ DlSetup
    \/ DlProbe
    \/ DlDownload
    \/ DlFind

Spec == Init /\ [][Next]_vars

-----------------------------------------------------------------------------
(* Properties *)

Printed == stdout # <<>>

\* sys.argv[1] of the invocation, when there is one
ActionArg == IF Len(argv) >= 2 THEN argv[2] ELSE ""

Succeeded == "success" \in DOMAIN result /\ result.success

Failed == "success" \in DOMAIN result /\ ~result.success

OptsBuilt == "format" \in DOMAIN ydl_opts

\* the invocation has an argument error
ArgumentError ==
    \/ Len(argv) < 2
    \/ argv[2] \notin {"info", "download"}
    \/ Len(argv) < 3

\* C1: an invocation with an argument error (no action, 'info' or 'download'
\* without a URL, an unknown action) makes no library call, stops at once and
\* ends with exit code 1.
C1_ArgumentErrorExitsOne ==
    ArgumentError =>
        /\ calls = <<>>
        /\ pc \in {"start", "done"}
        /\ pc = "done" => exitCode = 1

C1_Witness ==
    /\ pc = "done"
    /\ Len(argv) = 2
    /\ argv[2] = "download"
    /\ exitCode = 1
    /\ calls = <<>>

\* C2: every invocation has written exactly one JSON object to standard output
\* when the process ends.
C2_ExactlyOneJsonObject == pc = "done" => Len(stdout) = 1

\* C3: an exception raised by the library in option setup, probe, download or
\* result lookup never escapes get_video_info / download_video: the function
\* returns an object with success = false, an 'error' string and a 'message'
\* string built from it, and that object is what is printed.
C3_LibraryErrorsCaught ==
    /\ traceback => raised = "none" /\ calls = <<>>
    /\ raised # "none" =>
        /\ pc = "done"
        /\ exitCode = 0
        /\ stdout = <<result>>
        /\ DOMAIN result = {"success", "error", "message"}
        /\ result.success = FALSE
        /\ result.message[2] = result.error
        /\ result.message[1] =
              IF ActionArg = "info" THEN "Failed to get video info: " ELSE "Download failed: "

C3_Witness ==
    /\ pc = "done"
    /\ raised = "download"
    /\ calls[Len(calls)] = Call("download", "raise")
    /\ result.error = "ERROR: Unsupported URL"

\* every number n with a filter height<=n somewhere in selector sel
SelectorHeightBounds(sel) ==
    {StrToInt(sel[a][t].filters[k].val) :
        <<a, t, k>> \in {x \in (1..4) \X (1..2) \X (1..3) :
            /\ x[1] <= Len(sel)
            /\ x[2] <= Len(sel[x[1]])
            /\ x[3] <= Len(sel[x[1]][x[2]].filters)
            /\ sel[x[1]][x[2]].filters[x[3]].key = "height"}}

\* the table the specification gives for quality strings
ExpectedHeight(q) ==
    CASE q = "best" -> 9999
      [] q = "2160p" -> 2160
      [] q = "1440p" -> 1440
      [] q = "1080p" -> 1080
      [] q = "720p" -> 720
      [] q = "480p" -> 480
      [] q = "360p" -> 360
      [] OTHER -> 720

Malformed(q) == q \notin {"best", "2160p", "1440p", "1080p", "720p", "480p", "360p"}

\* C4 as stated: every download with a malformed quality string uses a selector
\* whose height bound is 720.
C4_MalformedUses720 ==
    (OptsBuilt /\ Malformed(quality)) => SelectorHeightBounds(ydl_opts.format) = {720}

\* C4 as amended: parse_quality_height follows the table and maps every other
\* string to 720; the selector of line 52 is bounded by that height; the
\* selector the download uses has that bound unless format_type is 'mp3' or
\* 'm4a', where it is 'bestaudio/best' and has no height bound.
C4_MalformedUses720UnlessAudio ==
    OptsBuilt =>
        /\ parse_quality_height(quality) = ExpectedHeight(quality)
        /\ SelectorHeightBounds(format_selector) = {ExpectedHeight(quality)}
        /\ format_type \notin {"mp3", "m4a"} =>
              SelectorHeightBounds(ydl_opts.format) = {ExpectedHeight(quality)}
        /\ format_type \in {"mp3", "m4a"} => SelectorHeightBounds(ydl_opts.format) = {}

C4_Witness ==
    /\ OptsBuilt
    /\ quality = "4k"
    /\ format_type = "webm"
    /\ SelectorHeightBounds(ydl_opts.format) = {720}

\* the key sets of the error objects the program builds
ErrorKeySets ==
    {DOMAIN MissingArguments, DOMAIN InvalidAction} \cup
    {DOMAIN DownloadFailed(e) : e \in LibraryErrors} \cup
    {DOMAIN InfoFailed(e) : e \in LibraryErrors}

\* C5: the printed object has a fixed shape: an error object has the key set
\* every error object of the program has, a successful download result and a
\* successful info result have exactly their listed keys.
C5_FixedShape ==
    (pc = "done" /\ Printed) =>
        LET o == stdout[1]
        IN  IF ~o.success THEN \A K \in ErrorKeySets : DOMAIN o = K
            ELSE IF ActionArg = "download"
            THEN DOMAIN o = {"success", "filename", "filepath", "title", "duration",
                             "format", "quality"}
            ELSE DOMAIN o = {"success", "title", "thumbnail", "duration", "views",
                             "channel", "uploadDate", "availableQualities",
                             "availableFormats"}

\* C6: a successful download reports the file this download produced: a
\* regular file whose name contains the title with '/' replaced by '_', or
\* else the most recently changed entry; never a directory, never a file of
\* an earlier download.
C6_ReportsThisDownload ==
    (pc = "done" /\ ActionArg = "download" /\ Succeeded) =>
        \E e \in output_dir :
            /\ e.name = result.filename
            /\ e.is_file
            /\ e.fresh
            /\ \/ /\ result.title.tag = "val"
                  /\ StrContains(e.name, StrReplace(result.title.v, "/", "_"))
               \/ /\ result.title.tag = "val" => TitleMatches(output_dir, result.title.v) = {}
                  /\ \A o \in output_dir : o.ctime <= e.ctime

CallIndices(fn) == {i \in 1..Len(calls) : calls[i].fn = fn}

\* C7: in download_video the download call comes after a probe that returned
\* an info record, is made at most once, and is not made at all when the
\* probe raised or returned None, in which case the result is an error object.
C7_ProbeBeforeDownload ==
    /\ \A i \in CallIndices("download") :
          \E j \in 1..(i - 1) : calls[j] = Call("extract_info", "info")
    /\ Cardinality(CallIndices("download")) <= 1
    /\ Cardinality(CallIndices("extract_info")) <= 1
    /\ (ActionArg = "download" /\
        \E j \in CallIndices("extract_info") : calls[j].ret \in {"raise", "None"}) =>
          /\ CallIndices("download") = {}
          /\ pc = "done"
          /\ Failed

C7_Witness ==
    /\ pc = "done"
    /\ ActionArg = "download"
    /\ calls = <<Call("YoutubeDL", "ok"), Call("extract_info", "None")>>
    /\ Failed

\* C8: the options download_video hands to the library: 'mp3'/'m4a' give the
\* selector 'bestaudio/best' whatever the quality, one FFmpegExtractAudio
\* post-processor with preferredcodec = format_type and no merge_output_format;
\* 'mp4' gives merge_output_format 'mp4' and no post-processor list; any other
\* format gives neither, and the selector of build_format_selector.
C8_OptionsByFormat ==
    OptsBuilt =>
        IF format_type \in {"mp3", "m4a"} THEN
            /\ Len(ydl_opts.format) = 2
            /\ ydl_opts.format[1] = <<[sel |-> "bestaudio", filters |-> <<>>]>>
            /\ ydl_opts.format[2] = <<[sel |-> "best", filters |-> <<>>]>>
            /\ "postprocessors" \in DOMAIN ydl_opts
            /\ Len(ydl_opts.postprocessors) = 1
            /\ ydl_opts.postprocessors[1].key = "FFmpegExtractAudio"
            /\ ydl_opts.postprocessors[1].preferredcodec = format_type
            /\ "merge_output_format" \notin DOMAIN ydl_opts
        ELSE IF format_type = "mp4" THEN
            /\ "merge_output_format" \in DOMAIN ydl_opts
            /\ ydl_opts.merge_output_format = "mp4"
            /\ "postprocessors" \notin DOMAIN ydl_opts
        ELSE
            /\ "merge_output_format" \notin DOMAIN ydl_opts
            /\ "postprocessors" \notin DOMAIN ydl_opts
            /\ ydl_opts.format = format_selector

C8_Witness ==
    /\ OptsBuilt
    /\ format_type = "m4a"
    /\ quality = "1080p"
    /\ ydl_opts.postprocessors[1].preferredcodec = "m4a"

\* a selector's filters on 'height'
HeightFilters(sel) ==
    {sel[x[1]][x[2]].filters[x[3]] :
        x \in {y \in (1..4) \X (1..2) \X (1..3) :
            /\ y[1] <= Len(sel)
            /\ y[2] <= Len(sel[y[1]])
            /\ y[3] <= Len(sel[y[1]][y[2]].filters)
            /\ sel[y[1]][y[2]].filters[y[3]].key = "height"}}

\* C9: every height constraint of the selector built by build_format_selector
\* is height<=H with H = parse_quality_height(quality); its last alternative
\* is best[height<=H]; for 'mp4' it starts with 'bestvideo[' exactly when
\* H >= 1080, that is for 'best', '2160p', '1440p', '1080p', and with 'best['
\* otherwise.
C9_SelectorHeights ==
    format_selector # <<>> =>
        LET H == parse_quality_height(quality)
            sel == format_selector
            last == sel[Len(sel)]
        IN  /\ HeightFilters(sel) # {}
            /\ \A flt \in HeightFilters(sel) :
                  flt.op = "<=" /\ IsIntLiteral(flt.val) /\ StrToInt(flt.val) = H
            /\ Len(last) = 1
            /\ last[1].sel = "best"
            /\ Len(last[1].filters) = 1
            /\ last[1].filters[1].key = "height"
            /\ format_type = "mp4" =>
                  /\ sel[1][1].sel = "bestvideo" <=> H >= 1080
                  /\ sel[1][1].sel = "best" <=> H < 1080
                  /\ H >= 1080 <=> quality \in {"best", "2160p", "1440p", "1080p"}

C9_Witness ==
    /\ format_selector # <<>>
    /\ quality = "1080p"
    /\ format_type = "mp4"
    /\ format_selector[1][1].sel = "bestvideo"
    /\ Len(format_selector) = 4

\* the truthy heights among the probed formats
ProbedHeights ==
    LET fs == DictGet(info.formats, Val(<<>>)).v
    IN  {fs[k].height.v : k \in {j \in 1..Len(fs) : fs[j].height.tag = "val" /\ fs[j].height.v # 0}}

ProbedExts ==
    LET fs == DictGet(info.formats, Val(<<>>)).v
    IN  {fs[k].ext.v : k \in {j \in 1..Len(fs) : fs[j].ext.tag = "val"}}

\* C10: in a successful info result availableQualities has no duplicates, is
\* strictly descending in height and has exactly one '<h>p' per distinct
\* truthy height; without such heights it is ['720p','480p','360p']; without
\* a truthy ext availableFormats is ['mp4','webm','mp3','m4a']; neither list
\* is empty.
C10_AvailableQualities ==
    (pc = "done" /\ ActionArg = "info" /\ Succeeded) =>
        LET q == result.availableQualities
            f == result.availableFormats
        IN  /\ \A i, j \in 1..Len(q) : i < j =>
                  q[i] # q[j] /\ QualityKey(q[i]) > QualityKey(q[j])
            /\ ProbedHeights # {} =>
                  /\ Len(q) = Cardinality(ProbedHeights)
                  /\ \A h \in ProbedHeights : \E i \in 1..Len(q) : q[i] = IntToStr(h) \o <<"p">>
            /\ ProbedHeights = {} =>
                  q = << <<"7", "2", "0", "p">>, <<"4", "8", "0", "p">>, <<"3", "6", "0", "p">> >>
            /\ ProbedExts = {} => f = <<"mp4", "webm", "mp3", "m4a">>
            /\ q # <<>>
            /\ f # <<>>

C10_Witness ==
    /\ pc = "done"
    /\ ActionArg = "info"
    /\ Succeeded
    /\ info.formats.tag = "val"
    /\ Len(info.formats.v) = 3
    /\ info.formats.v[1].height = Val(360)
    /\ info.formats.v[2].height = Val(0)
    /\ info.formats.v[3].height = Val(1080)
    /\ Len(result.availableQualities) = 2

====
